---- MODULE Spec2Model ----
(***************************************************************************)
(* Model of runtime/ocaml/floats.c: the floating-point primitives of the   *)
(* OCaml runtime as built for the hosted and the FreeBSD-kernel back-ends. *)
(*                                                                         *)
(* A double is its IEEE-754 bit pattern, written as the set of the bit     *)
(* positions (0..63) that are 1: bit 63 is the sign, bits 52..62 the       *)
(* exponent field, bits 0..51 the mantissa.  A 32-bit machine word is the  *)
(* set of its 1 bits (0..31), so that & is intersection and | is union.    *)
(***************************************************************************)
EXTENDS Integers, Sequences, FiniteSets, TLC

VARIABLES
  \* build-time configuration
  kernel,         \* defined(__FreeBSD__) && defined(_KERNEL)
  hasFpclassify,  \* defined(fpclassify) && !__CYGWIN32__ && !__MINGW32__
  highFirst,      \* ARCH_BIG_ENDIAN || (__arm__ && !__ARM_EABI__)
  alignDouble,    \* ARCH_ALIGN_DOUBLE
  brokenPrintf,   \* HAS_BROKEN_PRINTF
  \* comparison primitives
  vf, vg, vh,     \* boxed float arguments
  prim,           \* the primitive that was called ("none" before the call)
  ret,            \* what the primitives returned
  \* caml_classify_float
  vd,             \* its boxed argument
  cls,            \* <<>> before the call, <<result>> after it
  \* caml_copy_double and Double_val
  boxD,           \* the double to box
  cell,           \* the two words of the allocated cell
  boxPc,          \* "start", "allocated", "stored", "read"
  boxOut,         \* what Double_val read back
  \* caml_float_of_string, caml_float_of_substring, caml_format_float
  fn,             \* the function called
  vs, idx, l,     \* the string to parse; the substring's start and length
  fmt, arg,       \* the format string; the class of the double to format
  pc,             \* where the call is
  len, src, dst,  \* characters left to copy; read and write offsets
  buf, cap,       \* "stack" or "heap" scratch buffer, and its size in bytes
  mem,            \* the bytes written to the scratch buffer, in order
  hiWrite,        \* the highest offset written in the buffer (-1: none)
  reads,          \* the offsets of vs the call has read
  parsed,         \* the double the native parser returned
  prec, p,        \* caml_format_float: buffer size wanted; scan position
  allocs, frees,  \* calls of caml_stat_alloc; of caml_stat_free on its result
  live,           \* a heap scratch buffer is allocated and not yet freed
  stackFreed,     \* caml_stat_free was called on the stack buffer
  tret,           \* <<>> while running, <<result>> when the call has ended
  \* caml_frexp_float and caml_modf_float under a moving collector
  gfn,            \* "frexp" or "modf"
  gpc,            \* where the call is
  inD,            \* the double the argument held at the call
  heapMem,        \* address -> cell
  space,          \* the semispace allocation takes place in (0 or 1)
  used,           \* cells allocated in that semispace
  callerF,        \* the caller's own (registered) reference to the argument
  loc,            \* the value locals f, res, mantissa, quo, rem
  roots,          \* the locals registered by CAMLparam / CAMLlocal
  cloc,           \* the C locals: the primitive's result, exponent, frem
  gcs,            \* collections so far
  readAfter,      \* allocations that preceded the read of f (-1: not read)
  gret            \* <<>> while running, <<result>> after CAMLreturn

cfgVars == <<kernel, hasFpclassify, highFirst, alignDouble, brokenPrintf>>
cmpVars == <<vf, vg, vh, prim, ret>>
clsVars == <<vd, cls>>
boxVars == <<boxD, cell, boxPc, boxOut>>
argVars == <<fn, vs, idx, l, fmt, arg>>
bufVars == <<buf, cap, mem, hiWrite>>
heapVars == <<allocs, frees, live, stackFreed>>
txtVars ==
  <<argVars, pc, len, src, dst, bufVars, reads, parsed, prec, p, heapVars,
    tret>>
gcVars ==
  <<gfn, gpc, inD, heapMem, space, used, callerF, loc, roots, cloc, gcs,
    readAfter, gret>>
vars == <<cfgVars, cmpVars, clsVars, boxVars, txtVars, gcVars>>

\* the parts of the state a specification does not use
CmpIdle == vf = 0 /\ vg = 0 /\ vh = 0 /\ prim = "none" /\ ret = 0
ClsIdle == vd = 0 /\ cls = <<>>
BoxIdle == boxD = {} /\ cell = <<>> /\ boxPc = "idle" /\ boxOut = {}
GcIdle ==
  /\ gfn = "idle" /\ gpc = "idle" /\ inD = 0 /\ heapMem = <<>> /\ space = 0
  /\ used = 0 /\ callerF = 0 /\ loc = <<>> /\ roots = {} /\ cloc = <<>>
  /\ gcs = 0 /\ readAfter = -1 /\ gret = <<>>
\* a call of a text primitive that has not started
TxtFresh ==
  /\ len = 0 /\ src = 0 /\ dst = 0
  /\ buf = "none" /\ cap = 0 /\ mem = <<>> /\ hiWrite = -1
  /\ reads = {} /\ parsed = <<>> /\ prec = 0 /\ p = 0
  /\ allocs = 0 /\ frees = 0 /\ live = FALSE /\ stackFreed = FALSE
  /\ tret = <<>>
TxtIdle ==
  /\ fn = "idle" /\ vs = <<>> /\ idx = 0 /\ l = 0 /\ fmt = <<>>
  /\ arg = "none" /\ pc = "idle" /\ TxtFresh

----------------------------------------------------------------------------
(* IEEE-754 doubles as bit patterns *)

SignBit == 63
ExpBits == 52..62
MantBits == 0..51

IsNaN(d) == ExpBits \subseteq d /\ (d \cap MantBits) # {}
Mag(d) == d \ {SignBit}
IsZero(d) == Mag(d) = {}

SetMax(S) == CHOOSE x \in S : \A y \in S : y <= x

\* a < b for two magnitudes: the highest bit in which they differ is b's
MagLt(a, b) == a # b /\ SetMax((a \ b) \cup (b \ a)) \in b

\* the native relational operators of C on two doubles
FEq(f, g) == ~IsNaN(f) /\ ~IsNaN(g) /\ (f = g \/ (IsZero(f) /\ IsZero(g)))
FLt(f, g) ==
  /\ ~IsNaN(f) /\ ~IsNaN(g)
  /\ IF IsZero(f) /\ IsZero(g) THEN FALSE
     ELSE IF (SignBit \in f) # (SignBit \in g) THEN SignBit \in f
     ELSE IF SignBit \in f THEN MagLt(Mag(g), Mag(f))
     ELSE MagLt(Mag(f), Mag(g))
FNe(f, g) == ~FEq(f, g)
FLe(f, g) == FLt(f, g) \/ FEq(f, g)
FGt(f, g) == FLt(g, f)
FGe(f, g) == FLe(g, f)

MkDouble(neg, e, m) ==
  (IF neg THEN {SignBit} ELSE {}) \cup {52 + b : b \in e} \cup m

PosZero == {}
NegZero == {SignBit}
MinSubnormal == {0}
One == 52..61
Two == {62}
PosInf == ExpBits
NegInf == ExpBits \cup {SignBit}
QNaN == ExpBits \cup {51}
NegSNaN == ExpBits \cup {SignBit, 0}

CmpDoubles ==
  {PosZero, NegZero, MinSubnormal, One, One \cup {SignBit}, Two,
   PosInf, NegInf, QNaN, NegSNaN}

----------------------------------------------------------------------------
(* Tagged values *)

Val_long(n) == 2 * n + 1
Long_val(v) == (v - 1) \div 2
Val_int(n) == Val_long(n)
Val_bool(b) == Val_int(IF b THEN 1 ELSE 0)
Val_true == Val_int(1)
Val_false == Val_int(0)

\* a boxed float as the comparison primitives see it
BoxedFloat(d) == [tag |-> "Double_tag", d |-> d]
Double_val(v) == v.d

----------------------------------------------------------------------------
(* caml_eq_float .. caml_gt_float, caml_float_compare *)

caml_eq_float(f, g) ==
  IF kernel THEN Val_bool(FEq(Double_val(f), Double_val(g)))
  ELSE Val_bool(FEq(Double_val(f), Double_val(g)))

caml_neq_float(f, g) ==
  IF kernel THEN Val_bool(FNe(Double_val(f), Double_val(g)))
  ELSE Val_bool(FNe(Double_val(f), Double_val(g)))

caml_le_float(f, g) ==
  IF kernel THEN Val_bool(FLe(Double_val(f), Double_val(g)))
  ELSE Val_bool(FLe(Double_val(f), Double_val(g)))

caml_lt_float(f, g) ==
  IF kernel THEN Val_bool(FLe(Double_val(f), Double_val(g)))
  ELSE Val_bool(FLt(Double_val(f), Double_val(g)))

caml_ge_float(f, g) ==
  IF kernel THEN Val_bool(FGe(Double_val(f), Double_val(g)))
  ELSE Val_bool(FGe(Double_val(f), Double_val(g)))

caml_gt_float(f, g) ==
  IF kernel THEN Val_bool(FGt(Double_val(f), Double_val(g)))
  ELSE Val_bool(FGt(Double_val(f), Double_val(g)))

\* a plausible slip: the disabled NaN ordering (#if 0) compiled in
caml_float_compare_nan_ordered(vf_, vg_) ==
  LET f == Double_val(vf_)
      g == Double_val(vg_)
  IN  IF FEq(f, g) THEN Val_int(0)
      ELSE IF FLt(f, g) THEN Val_int(-1)
      ELSE IF FGt(f, g) THEN Val_int(1)
      ELSE IF FEq(f, f) THEN Val_int(1)
      ELSE IF FEq(g, g) THEN Val_int(-1)
      ELSE Val_int(0)

caml_float_compare(vf_, vg_) ==
  LET f == Double_val(vf_)
      g == Double_val(vg_)
  IN  IF FEq(f, g) THEN Val_int(0)
      ELSE IF FLt(f, g) THEN Val_int(-1)
      ELSE IF FGt(f, g) THEN Val_int(1)
      ELSE Val_int(0)

NoRet == [fg |-> 0, gf |-> 0, gh |-> 0, fh |-> 0]

CmpInit ==
  /\ kernel \in BOOLEAN
  /\ hasFpclassify = FALSE /\ highFirst = FALSE /\ alignDouble = FALSE
  /\ brokenPrintf = FALSE
  /\ ClsIdle /\ BoxIdle /\ TxtIdle /\ GcIdle
  /\ vf \in {BoxedFloat(d) : d \in CmpDoubles}
  /\ vg \in {BoxedFloat(d) : d \in CmpDoubles}
  /\ vh \in {BoxedFloat(d) : d \in CmpDoubles}
  /\ prim = "none"
  /\ ret = NoRet

\* the runtime calls one primitive; ret.fg is the call on (vf, vg), and so on
Return(name, fg, gf, gh, fh) ==
  /\ prim = "none"
  /\ prim' = name
  /\ ret' = [fg |-> fg, gf |-> gf, gh |-> gh, fh |-> fh]
  /\ UNCHANGED <<cfgVars, vf, vg, vh, clsVars, boxVars, txtVars, gcVars>>

CallEq ==
  Return("eq", caml_eq_float(vf, vg), caml_eq_float(vg, vf),
         caml_eq_float(vg, vh), caml_eq_float(vf, vh))

CallNeq ==
  Return("neq", caml_neq_float(vf, vg), caml_neq_float(vg, vf),
         caml_neq_float(vg, vh), caml_neq_float(vf, vh))

CallLe ==
  Return("le", caml_le_float(vf, vg), caml_le_float(vg, vf),
         caml_le_float(vg, vh), caml_le_float(vf, vh))

CallLt ==
  Return("lt", caml_lt_float(vf, vg), caml_lt_float(vg, vf),
         caml_lt_float(vg, vh), caml_lt_float(vf, vh))

CallGe ==
  Return("ge", caml_ge_float(vf, vg), caml_ge_float(vg, vf),
         caml_ge_float(vg, vh), caml_ge_float(vf, vh))

CallGt ==
  Return("gt", caml_gt_float(vf, vg), caml_gt_float(vg, vf),
         caml_gt_float(vg, vh), caml_gt_float(vf, vh))

CallCompare ==
  Return("compare", caml_float_compare(vf, vg), caml_float_compare(vg, vf),
         caml_float_compare(vg, vh), caml_float_compare(vf, vh))

CmpNext ==
  \/ CallEq
  \/ CallNeq
  \/ CallLe
  \/ CallLt
  \/ CallGe
  \/ CallGt
  \/ CallCompare

SpecCmp == CmpInit /\ [][CmpNext]_vars

----------------------------------------------------------------------------
(* C1: caml_float_compare(f, g) returns 0 when f == g, -1 when f < g, 1 when
   f > g, and 0 whenever at least one of f, g is NaN; it returns nothing
   else. *)
C1_CompareResult ==
  prim = "compare" =>
    LET f == Double_val(vf)
        g == Double_val(vg)
    IN  /\ ret.fg \in {Val_int(-1), Val_int(0), Val_int(1)}
        /\ (IsNaN(f) \/ IsNaN(g)) => ret.fg = Val_int(0)
        /\ FEq(f, g) => ret.fg = Val_int(0)
        /\ FLt(f, g) => ret.fg = Val_int(-1)
        /\ FGt(f, g) => ret.fg = Val_int(1)

\* compare was called with exactly one NaN operand and answered 0
C1_Witness ==
  /\ prim = "compare"
  /\ IsNaN(Double_val(vf)) /\ ~IsNaN(Double_val(vg))
  /\ ret.fg = Val_int(0)

(* C2: caml_float_compare is a total order over all doubles including NaN:
   antisymmetric (compare(f,g) = -compare(g,f)) and transitive
   (compare(f,g) <= 0 and compare(g,h) <= 0 imply compare(f,h) <= 0). *)
C2_TotalOrder ==
  prim = "compare" =>
    /\ Long_val(ret.fg) = -Long_val(ret.gf)
    /\ (Long_val(ret.fg) <= 0 /\ Long_val(ret.gh) <= 0)
         => Long_val(ret.fh) <= 0

(* C3: in both back-ends each of the six predicates returns the truth value
   of its own relational operator on the two unboxed operands. *)
C3_OwnOperator ==
  LET f == Double_val(vf)
      g == Double_val(vg)
  IN  /\ prim = "eq" => ret.fg = Val_bool(FEq(f, g))
      /\ prim = "neq" => ret.fg = Val_bool(FNe(f, g))
      /\ prim = "le" => ret.fg = Val_bool(FLe(f, g))
      /\ prim = "lt" => ret.fg = Val_bool(FLt(f, g))
      /\ prim = "ge" => ret.fg = Val_bool(FGe(f, g))
      /\ prim = "gt" => ret.fg = Val_bool(FGt(f, g))

----------------------------------------------------------------------------
(* union double_as_two_int32 and the two-word layout of a double *)

High(d) == {b - 32 : b \in d \cap (32..63)}
Low(d) == d \cap (0..31)

\* the words of a double in memory, at offsets 0 and 4
MemWords(d) == IF highFirst THEN <<High(d), Low(d)>> ELSE <<Low(d), High(d)>>
\* the double that two words at offsets 0 and 4 hold
WordsDouble(w) ==
  IF highFirst THEN w[2] \cup {b + 32 : b \in w[1]}
  ELSE w[1] \cup {b + 32 : b \in w[2]}

\* struct { uint32 h; uint32 l; } i  or  struct { uint32 l; uint32 h; } i
HOffset == IF highFirst THEN 1 ELSE 2
LOffset == IF highFirst THEN 2 ELSE 1

Mask_FFFFF == 0..19
Mask_7FF00000 == 20..30

ExpSamples ==
  {{}, 0..10} \cup {{b} : b \in 0..10} \cup {(0..10) \ {b} : b \in 0..10}
MantSamples == {{}, MantBits} \cup {{b} : b \in MantBits}
Doubles ==
  {MkDouble(neg, e, m) : neg \in BOOLEAN, e \in ExpSamples, m \in MantSamples}

----------------------------------------------------------------------------
(* caml_classify_float *)

FP_normal == 0
FP_subnormal == 1
FP_zero == 2
FP_infinite == 3
FP_nan == 4

\* the host's fpclassify macro (C99 7.12.3.1)
fpclassify(d) ==
  IF IsNaN(d) THEN "FP_NAN"
  ELSE IF ExpBits \subseteq d THEN "FP_INFINITE"
  ELSE IF IsZero(d) THEN "FP_ZERO"
  ELSE IF d \cap ExpBits = {} THEN "FP_SUBNORMAL"
  ELSE "FP_NORMAL"

classify_host(d) ==
  LET c == fpclassify(d)
  IN  IF c = "FP_NAN" THEN Val_int(FP_nan)
      ELSE IF c = "FP_INFINITE" THEN Val_int(FP_infinite)
      ELSE IF c = "FP_ZERO" THEN Val_int(FP_zero)
      ELSE IF c = "FP_SUBNORMAL" THEN Val_int(FP_subnormal)
      ELSE Val_int(FP_normal)

classify_kernel(d) ==
  IF FEq(d, PosZero) THEN Val_int(FP_zero) ELSE Val_int(FP_normal)

classify_bits(d) ==
  LET u == MemWords(d)
      h0 == u[HOffset]
      l0 == u[LOffset]
      l1 == l0 \cup (h0 \cap Mask_FFFFF)
      h1 == h0 \cap Mask_7FF00000
  IN  IF (h1 \cup l1) = {} THEN Val_int(FP_zero)
      ELSE IF h1 = {} THEN Val_int(FP_subnormal)
      ELSE IF h1 = Mask_7FF00000
           THEN (IF l1 = {} THEN Val_int(FP_infinite) ELSE Val_int(FP_nan))
      ELSE Val_int(FP_normal)

caml_classify_float(v) ==
  IF hasFpclassify THEN classify_host(Double_val(v))
  ELSE IF kernel THEN classify_kernel(Double_val(v))
  ELSE classify_bits(Double_val(v))

ClsInit ==
  /\ kernel \in BOOLEAN
  /\ hasFpclassify \in BOOLEAN
  /\ highFirst \in BOOLEAN
  /\ alignDouble = FALSE /\ brokenPrintf = FALSE
  /\ vd \in {BoxedFloat(d) : d \in Doubles}
  /\ cls = <<>>
  /\ CmpIdle /\ BoxIdle /\ TxtIdle /\ GcIdle

CallClassify ==
  /\ cls = <<>>
  /\ cls' = <<caml_classify_float(vd)>>
  /\ UNCHANGED <<cfgVars, cmpVars, vd, boxVars, txtVars, gcVars>>

ClsNext == CallClassify

SpecClassify == ClsInit /\ [][ClsNext]_vars

\* the code the claim gives a bit pattern, from its exponent field E and its
\* mantissa M
ExpField(d) == {b - 52 : b \in d \cap ExpBits}
ClassOfFields(d) ==
  LET E == ExpField(d)
      M == d \cap MantBits
  IN  IF E = {} /\ M = {} THEN FP_zero
      ELSE IF E = {} THEN FP_subnormal
      ELSE IF E = 0..10 /\ M = {} THEN FP_infinite
      ELSE IF E = 0..10 THEN FP_nan
      ELSE FP_normal

(* C6: in every build variant of caml_classify_float every bit pattern maps
   to the code its exponent field and mantissa determine (zero, subnormal,
   infinite, nan, normal), so the variants agree on every input. *)
C6_SameClassEveryBuild ==
  cls # <<>> => cls[1] = Val_int(ClassOfFields(Double_val(vd)))

----------------------------------------------------------------------------
(* caml_copy_double, Store_double_val, Double_val on the heap cell *)

\* Field(val, i), i = 0 or 1: the cell's word at offset 4 * i
Field(c, i) == c[i + 1]

\* what an uninitialised word may hold
GarbageWords == {{}, 0..31, {0}, {31}}

BoxDoubles ==
  {MkDouble(neg, e, m) :
     neg \in BOOLEAN,
     e \in {{}, 0..10, {0}, {10}},
     m \in {{}, MantBits, {0}, {31}, {32}, {51}}}

\* a plausible slip: the two words stored in the opposite order
caml_Store_double_val_swapped(c, dbl) ==
  LET buffer == MemWords(dbl)
  IN  <<buffer[2], buffer[1]>>

\* ARCH_ALIGN_DOUBLE: the cell after the store, through the union buffer
caml_Store_double_val(c, dbl) ==
  LET buffer == MemWords(dbl)
      c0 == [c EXCEPT ![1] = buffer[1]]
  IN  [c0 EXCEPT ![2] = buffer[2]]

caml_Double_val(c) ==
  LET buffer == <<Field(c, 0), Field(c, 1)>>
  IN  WordsDouble(buffer)

\* without ARCH_ALIGN_DOUBLE: the access through a double pointer
Store_double_val_direct(c, dbl) == MemWords(dbl)
Double_val_direct(c) == WordsDouble(c)

Store_double_val(c, dbl) ==
  IF alignDouble THEN caml_Store_double_val(c, dbl)
  ELSE Store_double_val_direct(c, dbl)

Double_val_cell(c) ==
  IF alignDouble THEN caml_Double_val(c) ELSE Double_val_direct(c)

BoxInit ==
  /\ kernel = FALSE /\ hasFpclassify = FALSE /\ brokenPrintf = FALSE
  /\ highFirst \in BOOLEAN
  /\ alignDouble \in BOOLEAN
  /\ boxD \in BoxDoubles
  /\ cell = <<>>
  /\ boxPc = "start"
  /\ boxOut = {}
  /\ CmpIdle /\ ClsIdle /\ TxtIdle /\ GcIdle

\* caml_copy_double: Alloc_small(res, Double_wosize, Double_tag)
BoxAlloc ==
  /\ boxPc = "start"
  /\ \E w0 \in GarbageWords, w1 \in GarbageWords : cell' = <<w0, w1>>
  /\ boxPc' = "allocated"
  /\ UNCHANGED <<cfgVars, cmpVars, clsVars, boxD, boxOut, txtVars, gcVars>>

\* caml_copy_double: Store_double_val(res, d); return res
BoxStore ==
  /\ boxPc = "allocated"
  /\ cell' = Store_double_val(cell, boxD)
  /\ boxPc' = "stored"
  /\ UNCHANGED <<cfgVars, cmpVars, clsVars, boxD, boxOut, txtVars, gcVars>>

\* Double_val on the returned cell
BoxRead ==
  /\ boxPc = "stored"
  /\ boxOut' = Double_val_cell(cell)
  /\ boxPc' = "read"
  /\ UNCHANGED <<cfgVars, cmpVars, clsVars, boxD, cell, txtVars, gcVars>>

BoxNext ==
  \/ BoxAlloc
  \/ BoxStore
  \/ BoxRead

SpecBox == BoxInit /\ [][BoxNext]_vars

(* C8: reading back with Double_val the cell made by caml_copy_double(d)
   yields d bit for bit; under ARCH_ALIGN_DOUBLE the store and the read move
   the two words in the same order, word 0 in field 0 and word 1 in field 1. *)
C8_RoundTrip ==
  /\ boxPc = "read" => boxOut = boxD
  /\ (alignDouble /\ boxPc \in {"stored", "read"}) =>
       /\ Field(cell, 0) = MemWords(boxD)[1]
       /\ Field(cell, 1) = MemWords(boxD)[2]

\* an aligned-double target read back a double whose two words differ
C8_Witness ==
  /\ boxPc = "read" /\ alignDouble
  /\ High(boxD) # Low(boxD)
  /\ boxOut = boxD

----------------------------------------------------------------------------
(* Strings and the native parsers (strtod, atoi) *)

NUL == "NUL"
DigitChars == <<"0", "1", "2", "3", "4", "5", "6", "7", "8", "9">>
Digits == {DigitChars[k] : k \in 1..10}
Spaces == {" "}
DigitVal(c) == (CHOOSE k \in 1..10 : DigitChars[k] = c) - 1

\* a C string: the bytes before the first NUL
RECURSIVE CString(_)
CString(b) ==
  IF b = <<>> \/ Head(b) = NUL THEN <<>> ELSE <<Head(b)>> \o CString(Tail(b))

\* the first index from i on whose character is not in S
RECURSIVE SpanEnd(_, _, _)
SpanEnd(s, i, S) ==
  IF i <= Len(s) /\ s[i] \in S THEN SpanEnd(s, i + 1, S) ELSE i

RECURSIVE DigitsValue(_, _, _)
DigitsValue(s, i, acc) ==
  IF i <= Len(s) /\ s[i] \in Digits
  THEN DigitsValue(s, i + 1, acc * 10 + DigitVal(s[i]))
  ELSE acc

RECURSIVE StripLeadingZeros(_)
StripLeadingZeros(s) ==
  IF s # <<>> /\ Head(s) = "0" THEN StripLeadingZeros(Tail(s)) ELSE s

RECURSIVE StripTrailingZeros(_)
StripTrailingZeros(s) ==
  IF s # <<>> /\ s[Len(s)] = "0"
  THEN StripTrailingZeros(SubSeq(s, 1, Len(s) - 1))
  ELSE s

\* atoi on the text from index i: blanks, a sign, then decimal digits
Atoi(s, i) ==
  LET i0 == SpanEnd(s, i, Spaces)
      neg == i0 <= Len(s) /\ s[i0] = "-"
      i1 == IF i0 <= Len(s) /\ s[i0] \in {"-", "+"} THEN i0 + 1 ELSE i0
      v == DigitsValue(s, i1, 0)
  IN  IF neg THEN -v ELSE v

\* strtod on a C string: the number of characters consumed and the value, a
\* decimal numeral [-] ip . fp e ex with ip and fp stripped of the zeros that
\* do not count.  No conversion: nothing is consumed and the value is zero.
Strtod(s) ==
  LET i0 == SpanEnd(s, 1, Spaces)
      neg == i0 <= Len(s) /\ s[i0] = "-"
      i1 == IF i0 <= Len(s) /\ s[i0] \in {"-", "+"} THEN i0 + 1 ELSE i0
      i2 == SpanEnd(s, i1, Digits)
      hasDot == i2 <= Len(s) /\ s[i2] = "."
      i3 == IF hasDot THEN SpanEnd(s, i2 + 1, Digits) ELSE i2
      ip == SubSeq(s, i1, i2 - 1)
      fp == IF hasDot THEN SubSeq(s, i2 + 1, i3 - 1) ELSE <<>>
      hasE == i3 <= Len(s) /\ s[i3] \in {"e", "E"}
      j0 == i3 + 1
      eneg == hasE /\ j0 <= Len(s) /\ s[j0] = "-"
      j1 == IF hasE /\ j0 <= Len(s) /\ s[j0] \in {"-", "+"} THEN j0 + 1 ELSE j0
      j2 == IF hasE THEN SpanEnd(s, j1, Digits) ELSE j1
      expOk == hasE /\ j2 > j1
      ex == IF expOk THEN DigitsValue(s, j1, 0) ELSE 0
  IN  IF ip = <<>> /\ fp = <<>>
      THEN [end |-> 0,
            val |-> [neg |-> FALSE, ip |-> <<>>, fp |-> <<>>, ex |-> 0]]
      ELSE [end |-> (IF expOk THEN j2 ELSE i3) - 1,
            val |-> [neg |-> neg, ip |-> StripLeadingZeros(ip),
                     fp |-> StripTrailingZeros(fp),
                     ex |-> IF eneg THEN -ex ELSE ex]]

----------------------------------------------------------------------------
(* caml_float_of_string and caml_float_of_substring *)

ParseBufferSize == 64
MaxLen == 3
MlsizeBits == 16

\* intnat to mlsize_t (the word is MlsizeBits wide in the model)
ToMlsize(x) == x % (2 ^ MlsizeBits)

\* a plausible slip: the length checked against the whole string
SubstringLen_whole_string(lenvs, fidx, flen) ==
  IF fidx >= 0 /\ ToMlsize(fidx) < lenvs /\ flen > 0
     /\ ToMlsize(flen) <= lenvs
  THEN ToMlsize(flen) ELSE 0

\* len = fidx >= 0 && fidx < lenvs && flen > 0 && flen <= lenvs - fidx
\*       ? flen : 0
SubstringLen(lenvs, fidx, flen) ==
  IF fidx >= 0 /\ ToMlsize(fidx) < lenvs /\ flen > 0
     /\ ToMlsize(flen) <= ToMlsize(lenvs - ToMlsize(fidx))
  THEN ToMlsize(flen) ELSE 0

\* a plausible slip: separators copied like any other character
KeepChar_every(c) == TRUE

\* if (c != '_') *dst++ = c
KeepChar(c) == c # "_"

\* if (buf != parse_buffer) caml_stat_free(buf), before the return
ReturnFrees(b) == b # "stack"

\* a plausible slip: the error path raises without releasing the buffer
ErrorFrees_never(b) == FALSE

\* if (buf != parse_buffer) caml_stat_free(buf), at the error label
ErrorFrees(b) == b # "stack"

\* the character at offset i of a string; outside the string the read is
\* undefined and may yield anything
CharAt(s, i) == IF i \in 0..(Len(s) - 1) THEN {s[i + 1]} ELSE {NUL, "1"}

SetMaxInt(a, b) == IF a >= b THEN a ELSE b

RECURSIVE Strings(_, _)
Strings(A, n) ==
  IF n = 0 THEN {<<>>}
  ELSE LET S == Strings(A, n - 1)
       IN  S \cup {Append(t, c) : t \in {u \in S : Len(u) = n - 1}, c \in A}

RECURSIVE Pad(_, _)
Pad(c, n) == IF n <= 0 THEN <<>> ELSE <<c>> \o Pad(c, n - 1)

ParseAlphabet == {"1", "_", ".", "e", "x", "-", NUL}
Examples ==
  {<<"1", "_", "0", "0", "0", ".", "5">>, <<"3", ".", "1", "4">>,
   <<"1", "2", "x">>, <<"a", "b", "c">>, <<"_", "_", "_">>,
   <<" ", "-", "1", "e", "-", "2">>, <<"1", "e", "1", "_", "0">>}
\* strings around the size of the stack buffer: a run of one character, then
\* a short tail
LongStrings ==
  {Pad(c, n - Len(t)) \o t :
     c \in {"_", "0", "1"},
     n \in (ParseBufferSize - 2)..(ParseBufferSize + 1),
     t \in Strings({"1", "x"}, 2)}
ParseInputs == Strings(ParseAlphabet, MaxLen) \cup Examples \cup LongStrings

SubstringInputs ==
  {<<s, Val_long(i), Val_long(n)>> :
     s \in Strings({"1", "_", "x"}, MaxLen),
     i \in (-1)..(MaxLen + 1), n \in (-1)..(MaxLen + 1)}
  \cup
  {<<Pad(c, ParseBufferSize + 1) \o t, Val_long(i), Val_long(n)>> :
     c \in {"_", "1"}, t \in {<<"1">>, <<"x">>},
     i \in {0, 2},
     n \in (ParseBufferSize - 1)..(ParseBufferSize + 3)}

ParseInit ==
  /\ kernel \in BOOLEAN
  /\ hasFpclassify = FALSE /\ highFirst = FALSE /\ alignDouble = FALSE
  /\ brokenPrintf = FALSE
  /\ \/ /\ fn = "of_string"
        /\ vs \in ParseInputs
        /\ idx = 0 /\ l = 0
     \/ /\ fn = "of_substring"
        /\ \E a \in SubstringInputs : vs = a[1] /\ idx = a[2] /\ l = a[3]
  /\ fmt = <<>> /\ arg = "none"
  /\ pc = "start"
  /\ TxtFresh
  /\ CmpIdle /\ ClsIdle /\ BoxIdle /\ GcIdle

\* a plausible slip: a text as long as the local buffer kept in it
UseParseBuffer_le(n) == n <= ParseBufferSize

\* buf = len < sizeof(parse_buffer) ? parse_buffer : ...
UseParseBuffer(n) == n < ParseBufferSize

\* ... : caml_stat_alloc(len + 1), the size computed in mlsize_t
StatAllocSize(n) == ToMlsize(n + 1)

\* entry: the effective length, the choice of the scratch buffer
ParseSetup ==
  /\ pc = "start" /\ fn \in {"of_string", "of_substring"}
  /\ LET lenvs == Len(vs)
         n == IF fn = "of_string" THEN lenvs
              ELSE SubstringLen(lenvs, Long_val(idx), Long_val(l))
         heap == ~UseParseBuffer(n)
     IN  /\ len' = n
         /\ buf' = IF heap THEN "heap" ELSE "stack"
         /\ cap' = IF heap THEN StatAllocSize(n) ELSE ParseBufferSize
         /\ allocs' = IF heap THEN allocs + 1 ELSE allocs
         /\ live' = heap
         /\ src' = IF fn = "of_string" THEN 0 ELSE Long_val(idx)
  /\ dst' = 0
  /\ pc' = "loop"
  /\ UNCHANGED <<gcVars, cfgVars, cmpVars, clsVars, boxVars, argVars, mem, hiWrite,
                 reads, parsed, prec, p, frees, stackFreed, tret>>

\* one iteration of while (len--) { c = *src++; if (c != '_') *dst++ = c; }
CopyChar ==
  /\ pc = "loop" /\ len # 0
  /\ len' = len - 1
  /\ reads' = reads \cup {src}
  /\ src' = src + 1
  /\ \E c \in CharAt(vs, src) :
       IF KeepChar(c)
       THEN /\ mem' = Append(mem, c)
            /\ hiWrite' = SetMaxInt(hiWrite, dst)
            /\ dst' = dst + 1
       ELSE UNCHANGED <<mem, hiWrite, dst>>
  /\ UNCHANGED <<gcVars, cfgVars, cmpVars, clsVars, boxVars, argVars, pc, buf, cap,
                 parsed, prec, p, heapVars, tret>>

\* the loop ends: *dst = 0; if (dst == buf) goto error
Terminate ==
  /\ pc = "loop" /\ len = 0
  /\ mem' = Append(mem, NUL)
  /\ hiWrite' = SetMaxInt(hiWrite, dst)
  /\ pc' = IF dst = 0 THEN "error" ELSE "parse"
  /\ UNCHANGED <<gcVars, cfgVars, cmpVars, clsVars, boxVars, argVars, len, src, dst,
                 buf, cap, reads, parsed, prec, p, heapVars, tret>>

\* d = strtod(buf, &end); if (end != dst) goto error
CallStrtod ==
  /\ pc = "parse"
  /\ LET r == Strtod(CString(mem))
     IN  /\ parsed' = <<r.val>>
         /\ pc' = IF r.end # dst THEN "error" ELSE "ok"
  /\ UNCHANGED <<gcVars, cfgVars, cmpVars, clsVars, boxVars, argVars, len, src, dst,
                 bufVars, reads, prec, p, heapVars, tret>>

\* caml_stat_free(b)
StatFree(b) ==
  /\ frees' = IF b = "heap" THEN frees + 1 ELSE frees
  /\ live' = IF b = "heap" THEN FALSE ELSE live
  /\ stackFreed' = (stackFreed \/ b = "stack")
  /\ UNCHANGED allocs

\* if (buf != parse_buffer) caml_stat_free(buf); return caml_copy_double(d)
ReturnDouble ==
  /\ pc = "ok"
  /\ IF ReturnFrees(buf) THEN StatFree(buf) ELSE UNCHANGED heapVars
  /\ tret' = <<[kind |-> "float", d |-> parsed[1]]>>
  /\ pc' = "done"
  /\ UNCHANGED <<gcVars, cfgVars, cmpVars, clsVars, boxVars, argVars, len, src, dst,
                 bufVars, reads, parsed, prec, p>>

\* error: if (buf != parse_buffer) caml_stat_free(buf);
\*        caml_failwith("float_of_string")
RaiseFailure ==
  /\ pc = "error"
  /\ IF ErrorFrees(buf) THEN StatFree(buf) ELSE UNCHANGED heapVars
  /\ tret' = <<[kind |-> "failure", msg |-> "float_of_string"]>>
  /\ pc' = "done"
  /\ UNCHANGED <<gcVars, cfgVars, cmpVars, clsVars, boxVars, argVars, len, src, dst,
                 bufVars, reads, parsed, prec, p>>

ParseNext ==
  \/ ParseSetup
  \/ CopyChar
  \/ Terminate
  \/ CallStrtod
  \/ ReturnDouble
  \/ RaiseFailure

SpecParse == ParseInit /\ [][ParseNext]_vars

\* the results of a call
Float(v) == [kind |-> "float", d |-> v]
Failure(tag) == [kind |-> "failure", msg |-> tag]

\* s with every '_' removed, the other characters kept in order
Cleaned(s) == SelectSeq(s, LAMBDA c : c # "_")

\* what parsing the text s must give: a failure when the cleaned text is empty
\* or the native parser stops before its end, the parser's value otherwise
ExpectedParse(s) ==
  LET t == Cleaned(s)
      r == Strtod(CString(t))
  IN  IF t = <<>> \/ r.end # Len(t) THEN Failure("float_of_string")
      ELSE Float(r.val)

(* C4: caml_float_of_string(s) raises the failure "float_of_string" exactly
   when s without its '_' characters is empty or is not consumed entirely by
   the native parser, and otherwise returns the parser's value for the
   cleaned text: "1_000.5" yields 1000.5; "12x", "abc", "" and "___" fail. *)
C4_OfString ==
  (fn = "of_string" /\ pc = "done") =>
    /\ tret = <<ExpectedParse(vs)>>
    /\ vs = <<"1", "_", "0", "0", "0", ".", "5">> =>
         tret[1] = Float([neg |-> FALSE, ip |-> <<"1", "0", "0", "0">>,
                          fp |-> <<"5">>, ex |-> 0])
    /\ vs \in {<<"1", "2", "x">>, <<"a", "b", "c">>, <<>>, <<"_", "_", "_">>}
         => tret[1] = Failure("float_of_string")

\* a string with a separator inside was parsed to a float
C4_Witness ==
  /\ fn = "of_string" /\ pc = "done"
  /\ \E i \in 2..(Len(vs) - 1) : vs[i] = "_"
  /\ tret[1].kind = "float"

\* the slice (idx, l) lies inside vs
ValidSlice(s, i, n) == 0 <= i /\ i < Len(s) /\ n > 0 /\ n <= Len(s) - i

(* C9: caml_float_of_substring(vs, idx, l) parses exactly the characters
   vs[idx .. idx+l-1] when 0 <= idx < length(vs), l > 0 and
   l <= length(vs) - idx; for every other (idx, l) it reads no character of
   vs and raises the failure "float_of_string". *)
C9_OfSubstring ==
  fn = "of_substring" =>
    LET i == Long_val(idx)
        n == Long_val(l)
    IN  IF ValidSlice(vs, i, n)
        THEN /\ reads \subseteq i..(i + n - 1)
             /\ pc = "done" =>
                  /\ reads = i..(i + n - 1)
                  /\ tret = <<ExpectedParse(SubSeq(vs, i + 1, i + n))>>
        ELSE /\ reads = {}
             /\ pc = "done" => tret = <<Failure("float_of_string")>>

\* a slice strictly inside the string was parsed to a float
C9_Witness ==
  /\ fn = "of_substring" /\ pc = "done"
  /\ Long_val(idx) > 0
  /\ Long_val(idx) + Long_val(l) < Len(vs)
  /\ ValidSlice(vs, Long_val(idx), Long_val(l))
  /\ tret[1].kind = "float"

\* the number of characters a call has to copy: the whole string, or the
\* slice when it lies inside the string and nothing otherwise
EffectiveLen ==
  IF fn = "of_string" THEN Len(vs)
  ELSE IF ValidSlice(vs, Long_val(idx), Long_val(l)) THEN Long_val(l)
  ELSE 0

(* C11: in caml_float_of_string and caml_float_of_substring every write of
   the copy loop and the final NUL write land inside the scratch buffer: for
   the effective length n the 64-byte local buffer is chosen only when
   n < 64, otherwise a heap buffer of n + 1 bytes is allocated; at most n
   characters and one NUL are written, so the highest offset written is
   below the buffer's size (n = 63 and n = 64 included, with or without '_'
   characters). *)
C11_WritesInsideParseBuffer ==
  (fn \in {"of_string", "of_substring"} /\ pc # "start") =>
    LET n == EffectiveLen
    IN  /\ buf = "stack" => (n < ParseBufferSize /\ cap = ParseBufferSize)
        /\ buf = "heap" => (n >= ParseBufferSize /\ cap = n + 1)
        /\ buf \in {"stack", "heap"}
        /\ hiWrite < cap
        /\ dst <= n /\ Len(mem) <= n + 1
        /\ pc = "loop" => dst + len <= n
        /\ pc \notin {"loop"} => hiWrite = dst

\* a string of exactly 64 characters, none of them '_', was copied to a heap
\* buffer of 65 bytes and its NUL written to the last byte
C11_Witness ==
  /\ fn = "of_string" /\ pc = "done"
  /\ Len(vs) = ParseBufferSize /\ Cleaned(vs) = vs
  /\ buf = "heap" /\ cap = ParseBufferSize + 1
  /\ hiWrite = ParseBufferSize /\ Len(mem) = cap

----------------------------------------------------------------------------
(* caml_format_float *)

MAX_DIGITS == 350
FormatBufferSize == MAX_DIGITS + 20
MaxLit == 2

\* the first index from i on whose character is in S, Len(s) + 1 if none
RECURSIVE Find(_, _, _)
Find(s, i, S) ==
  IF i <= Len(s) /\ s[i] \notin S THEN Find(s, i + 1, S) ELSE i

\* the first loop: the first digit of the format starts the width
ScanWidth(f) ==
  LET q == Find(f, 1, Digits)
      i == Atoi(f, q) + MAX_DIGITS
  IN  [p |-> q,
       prec |-> IF q <= Len(f) /\ i > MAX_DIGITS THEN i ELSE MAX_DIGITS]

\* the second loop, from where the first one stopped: the first '.' starts
\* the precision
ScanPrecision(f, p0, prec0) ==
  LET q == Find(f, p0, {"."})
      i == Atoi(f, q + 1) + MAX_DIGITS
  IN  [p |-> q, prec |-> IF q <= Len(f) /\ i > prec0 THEN i ELSE prec0]

\* the conversion specification of a format, as the native formatter reads
\* it: % flags width [. precision] conversion
Directive(f) ==
  LET q == Find(f, 1, {"%"})
      w0 == SpanEnd(f, q + 1, {"-", "+", " ", "#", "0"})
      w1 == SpanEnd(f, w0, Digits)
      hasDot == w1 <= Len(f) /\ f[w1] = "."
      p1 == IF hasDot THEN SpanEnd(f, w1 + 1, Digits) ELSE w1
  IN  [start |-> q, conv |-> p1,
       width |-> DigitsValue(f, w0, 0),
       explicit |-> hasDot,
       precision |-> IF hasDot THEN DigitsValue(f, w1 + 1, 0) ELSE 0]

IsFinite(a) == a \in {"one", "max"}
\* the digits before the point of 1.0 and of the largest double
IntDigits(a) == IF a = "one" THEN 1 ELSE 309

\* the number of characters sprintf(dest, fmt, d) writes before the NUL
SprintfLen(f, a) ==
  LET dv == Directive(f)
      pr == IF dv.explicit THEN dv.precision ELSE 6
      body == IF IsFinite(a)
              THEN IntDigits(a) + (IF pr > 0 THEN 1 + pr ELSE 0)
              ELSE IF a = "-inf" THEN 4 ELSE 3
  IN  (dv.start - 1) + SetMaxInt(dv.width, body) + (Len(f) - dv.conv)

Fmts ==
  {pre \o <<"%">> \o fl \o w \o pr \o <<"f">> \o suf :
     pre \in Strings({"1", ".", "x"}, MaxLit),
     fl \in {<<>>, <<"0">>},
     w \in {<<>>, <<"5">>, <<"4", "0", "0">>},
     pr \in {<<>>, <<".">>, <<".", "1", "2">>, <<".", "4", "0", "0">>},
     suf \in {<<>>, <<"9">>}}

FormatInit ==
  /\ kernel \in BOOLEAN
  /\ brokenPrintf \in BOOLEAN
  /\ hasFpclassify = FALSE /\ highFirst = FALSE /\ alignDouble = FALSE
  /\ fn = "format"
  /\ fmt \in Fmts
  /\ arg \in {"one", "max", "nan", "-inf"}
  /\ vs = <<>> /\ idx = 0 /\ l = 0
  /\ pc = "start"
  /\ TxtFresh
  /\ CmpIdle /\ ClsIdle /\ BoxIdle /\ GcIdle

\* HAS_BROKEN_PRINTF and d not finite: the literal "nan", "inf" or "-inf"
FormatNonFinite ==
  /\ pc = "start" /\ fn = "format"
  /\ brokenPrintf /\ ~IsFinite(arg)
  /\ tret' = <<[kind |-> "string",
                text |-> <<"literal", IF arg = "nan" THEN "nan"
                                      ELSE IF arg = "-inf" THEN "-inf"
                                      ELSE "inf">>]>>
  /\ pc' = "done"
  /\ UNCHANGED <<gcVars, cfgVars, cmpVars, clsVars, boxVars, argVars, len, src, dst,
                 bufVars, reads, parsed, prec, p, heapVars>>

\* the two scans of the format and the choice of the destination buffer
FormatScan ==
  /\ pc = "start" /\ fn = "format"
  /\ ~(brokenPrintf /\ ~IsFinite(arg))
  /\ LET s1 == ScanWidth(fmt)
         s2 == ScanPrecision(fmt, s1.p, s1.prec)
         heap == ~(s2.prec < FormatBufferSize)
     IN  /\ p' = s2.p
         /\ prec' = s2.prec
         /\ buf' = IF heap THEN "heap" ELSE "stack"
         /\ cap' = IF heap THEN s2.prec ELSE FormatBufferSize
         /\ allocs' = IF heap THEN allocs + 1 ELSE allocs
         /\ live' = heap
  /\ pc' = "render"
  /\ UNCHANGED <<gcVars, cfgVars, cmpVars, clsVars, boxVars, argVars, len, src, dst,
                 mem, hiWrite, reads, parsed, frees, stackFreed, tret>>

\* fixpt_to_str(d, dest, digits) or sprintf(dest, fmt, d), then
\* res = caml_copy_string(dest)
FormatRender ==
  /\ pc = "render"
  /\ IF kernel
     THEN /\ parsed' = <<[kind |-> "string",
                          text |-> <<"fixpt_to_str",
                                     IF prec > MAX_DIGITS
                                     THEN prec - MAX_DIGITS
                                     ELSE MAX_DIGITS>>]>>
          /\ UNCHANGED hiWrite
     ELSE /\ parsed' = <<[kind |-> "string",
                          text |-> <<"sprintf", SprintfLen(fmt, arg)>>]>>
          /\ hiWrite' = SprintfLen(fmt, arg)
  /\ pc' = "free"
  /\ UNCHANGED <<gcVars, cfgVars, cmpVars, clsVars, boxVars, argVars, len, src, dst,
                 buf, cap, mem, reads, prec, p, heapVars, tret>>

\* if (dest != format_buffer) caml_stat_free(dest); return res
FormatFree ==
  /\ pc = "free"
  /\ IF ReturnFrees(buf) THEN StatFree(buf) ELSE UNCHANGED heapVars
  /\ tret' = parsed
  /\ pc' = "done"
  /\ UNCHANGED <<gcVars, cfgVars, cmpVars, clsVars, boxVars, argVars, len, src, dst,
                 bufVars, reads, parsed, prec, p>>

FormatNext ==
  \/ FormatNonFinite
  \/ FormatScan
  \/ FormatRender
  \/ FormatFree

SpecFormat == FormatInit /\ [][FormatNext]_vars

\* the three text primitives together
TextInit == ParseInit \/ FormatInit
TextNext == ParseNext \/ FormatNext
SpecText == TextInit /\ [][TextNext]_vars

(* C7: caml_format_float renders into a destination buffer whose capacity is
   at least 350 plus the explicit field width and at least 350 plus the
   explicit precision of the format, wherever the '.' and the digits occur. *)
C7_BufferCoversWidthAndPrecision ==
  (fn = "format" /\ buf # "none") =>
    /\ cap >= MAX_DIGITS + Directive(fmt).width
    /\ cap >= MAX_DIGITS + Directive(fmt).precision

(* C5: in caml_float_of_string, caml_float_of_substring and
   caml_format_float a heap scratch buffer obtained with caml_stat_alloc is
   freed exactly once before the call ends, on the normal return and on the
   failure path alike; the stack buffer is never passed to caml_stat_free;
   no heap scratch buffer is live after the call. *)
C5_ScratchReleased ==
  /\ ~stackFreed
  /\ allocs <= 1 /\ frees <= allocs
  /\ live = (allocs = 1 /\ frees = 0)
  /\ (buf = "heap") = (allocs = 1)
  /\ pc = "done" => (~live /\ frees = allocs)

\* a call that took a heap buffer ended by raising the failure
C5_Witness ==
  /\ pc = "done" /\ allocs = 1 /\ frees = 1
  /\ tret[1].kind = "failure"

----------------------------------------------------------------------------
(* caml_frexp_float and caml_modf_float, with an allocator that may move or
   collect every cell no registered root reaches *)

SemiSize == 6
MaxQ == 6

Addr == 1..(2 * SemiSize)
Base(sp) == sp * SemiSize

\* values: a pointer to a cell, or an immediate integer
Ptr(a) == [k |-> "ptr", a |-> a]
Imm(n) == [k |-> "int", a |-> n]
Val_unit == Imm(Val_int(0))

\* the doubles of this part are the rationals num / den, den a power of two
RECURSIVE Norm(_, _)
Norm(n, d) ==
  IF n = 0 THEN [num |-> 0, den |-> 1]
  ELSE IF d > 1 /\ n % 2 = 0 THEN Norm(n \div 2, d \div 2)
  ELSE [num |-> n, den |-> d]

FreeCell == [tag |-> "free", d |-> Norm(0, 1), f |-> <<>>]
DoubleCell(x) == [tag |-> "Double", d |-> x, f |-> <<>>]
TupleCell(v0, v1) == [tag |-> "Tuple", d |-> Norm(0, 1), f |-> <<v0, v1>>]

Abs(n) == IF n < 0 THEN -n ELSE n
RECURSIVE BitLen(_)
BitLen(n) == IF n = 0 THEN 0 ELSE 1 + BitLen(n \div 2)

\* frexp(q / 4, &exponent): the mantissa in [1/2, 1) and the exponent
Frexp(q) ==
  IF q = 0 THEN [m |-> Norm(0, 1), e |-> 0]
  ELSE [m |-> Norm(q, 2 ^ BitLen(Abs(q))), e |-> BitLen(Abs(q)) - 2]

\* modf(q / 4, &frem): returns the fractional part, stores the integral part
Modf(q) ==
  LET ip == IF q < 0 THEN -(Abs(q) \div 4) ELSE q \div 4
  IN  [frac |-> Norm(q - 4 * ip, 4), int |-> Norm(ip, 1)]

LocalNames == {"f", "res", "mantissa", "quo", "rem"}

\* CAMLparam1 (f)
CAMLparams(g) == {"f"}

\* a plausible slip: the boxed components left unregistered
CAMLlocals_res_only(g) == {"res"}

\* CAMLlocal2 (res, mantissa) / CAMLlocal3 (res, quo, rem)
CAMLlocals(g) ==
  IF g = "frexp" THEN {"res", "mantissa"} ELSE {"res", "quo", "rem"}

\* the cells the collector keeps: those the registered roots reach
RootAddrs ==
  {callerF} \cup {loc[n].a : n \in {x \in roots : loc[x].k = "ptr"}}
LiveAddrs ==
  RootAddrs \cup
  {heapMem[x[1]].f[x[2]].a :
     x \in {y \in RootAddrs \X (1..2) :
              /\ heapMem[y[1]].tag = "Tuple"
              /\ heapMem[y[1]].f[y[2]].k = "ptr"}}

NewAddr(a, S, sp) == Base(sp) + Cardinality({b \in S : b < a}) + 1
Forward(v, S, sp) ==
  IF v.k = "ptr" /\ v.a \in S THEN Ptr(NewAddr(v.a, S, sp)) ELSE v
ForwardCell(c, S, sp) ==
  IF c.tag = "Tuple"
  THEN TupleCell(Forward(c.f[1], S, sp), Forward(c.f[2], S, sp))
  ELSE c

\* the memory as the call sees it, and after a collection: the live cells
\* are copied to the other semispace, the registered roots are updated, and
\* every other cell is gone
Current ==
  [heap |-> heapMem, loc |-> loc, callerF |-> callerF, space |-> space,
   used |-> used]
Collected ==
  LET S == LiveAddrs
      sp == 1 - space
  IN  [heap |-> [a \in Addr |->
                   IF \E b \in S : NewAddr(b, S, sp) = a
                   THEN ForwardCell(
                          heapMem[CHOOSE b \in S : NewAddr(b, S, sp) = a],
                          S, sp)
                   ELSE FreeCell],
       loc |-> [n \in LocalNames |->
                  IF n \in roots THEN Forward(loc[n], S, sp) ELSE loc[n]],
       callerF |-> NewAddr(callerF, S, sp),
       space |-> sp,
       used |-> Cardinality(S)]

\* loc[target] = <allocation of cell c>, the allocation collecting or not
AllocInto(target, c, next) ==
  /\ \E gc \in BOOLEAN :
       LET st == IF gc THEN Collected ELSE Current
           a == Base(st.space) + st.used + 1
       IN  /\ st.used < SemiSize
           /\ heapMem' = [st.heap EXCEPT ![a] = c]
           /\ loc' = [st.loc EXCEPT ![target] = Ptr(a)]
           /\ callerF' = st.callerF
           /\ space' = st.space
           /\ used' = st.used + 1
           /\ gcs' = IF gc THEN gcs + 1 ELSE gcs
  /\ cloc' = [cloc EXCEPT !.allocs = @ + 1]
  /\ gpc' = next
  /\ UNCHANGED <<gfn, inD, roots, readAfter, gret>>
  /\ UNCHANGED <<cfgVars, cmpVars, clsVars, boxVars, txtVars>>

GcInit ==
  /\ kernel \in BOOLEAN
  /\ hasFpclassify = FALSE /\ highFirst = FALSE /\ alignDouble = FALSE
  /\ brokenPrintf = FALSE
  /\ gfn \in {"frexp", "modf"}
  /\ inD \in (-MaxQ)..MaxQ
  /\ space = 0
  /\ \E pre \in 0..1 :
       /\ used = pre + 1
       /\ callerF = pre + 1
       /\ heapMem = [a \in Addr |->
                       IF a = pre + 1 THEN DoubleCell(Norm(inD, 4))
                       ELSE IF a <= pre THEN DoubleCell(Norm(1, 2))
                       ELSE FreeCell]
       /\ loc = [n \in LocalNames |->
                   IF n = "f" THEN Ptr(pre + 1) ELSE Val_unit]
  /\ roots = {}
  /\ cloc = [tmp |-> Norm(0, 1), exponent |-> 0, frem |-> Norm(0, 1),
             allocs |-> 0]
  /\ gcs = 0
  /\ readAfter = -1
  /\ gret = <<>>
  /\ gpc = "entry"
  /\ CmpIdle /\ ClsIdle /\ BoxIdle /\ TxtIdle

\* CAMLparam1 (f); CAMLlocalN (...)
GEntry ==
  /\ gpc = "entry"
  /\ roots' = CAMLparams(gfn) \cup CAMLlocals(gfn)
  /\ gpc' = "prim"
  /\ UNCHANGED <<gfn, inD, heapMem, space, used, callerF, loc, cloc, gcs,
                 readAfter, gret>>
  /\ UNCHANGED <<cfgVars, cmpVars, clsVars, boxVars, txtVars>>

\* frexp (Double_val(f), &exponent) / modf (Double_val(f), &frem); a cell
\* that is no longer a double reads as 0
GPrim ==
  /\ gpc = "prim"
  /\ LET c == heapMem[loc["f"].a]
         q == IF c = DoubleCell(Norm(inD, 4)) THEN inD ELSE 0
     IN  cloc' = IF gfn = "frexp"
                 THEN [cloc EXCEPT !.tmp = Frexp(q).m,
                                   !.exponent = Frexp(q).e]
                 ELSE [cloc EXCEPT !.tmp = Modf(q).frac,
                                   !.frem = Modf(q).int]
  /\ readAfter' = cloc.allocs
  /\ gpc' = "box1"
  /\ UNCHANGED <<gfn, inD, heapMem, space, used, callerF, loc, roots, gcs,
                 gret>>
  /\ UNCHANGED <<cfgVars, cmpVars, clsVars, boxVars, txtVars>>

\* mantissa = caml_copy_double(...) / quo = caml_copy_double(...)
GBox1 ==
  /\ gpc = "box1"
  /\ AllocInto(IF gfn = "frexp" THEN "mantissa" ELSE "quo",
               DoubleCell(cloc.tmp),
               IF gfn = "frexp" THEN "tuple" ELSE "box2")

\* rem = caml_copy_double(frem)
GBox2 ==
  /\ gpc = "box2"
  /\ AllocInto("rem", DoubleCell(cloc.frem), "tuple")

\* res = caml_alloc_tuple(2)
GTuple ==
  /\ gpc = "tuple"
  /\ AllocInto("res", TupleCell(Val_unit, Val_unit), "fill")

\* Field(res, 0) = ...; Field(res, 1) = ...
GFill ==
  /\ gpc = "fill"
  /\ heapMem' =
       [heapMem EXCEPT ![loc["res"].a] =
          IF gfn = "frexp"
          THEN TupleCell(loc["mantissa"], Imm(Val_int(cloc.exponent)))
          ELSE TupleCell(loc["quo"], loc["rem"])]
  /\ gpc' = "return"
  /\ UNCHANGED <<gfn, inD, space, used, callerF, loc, roots, cloc, gcs,
                 readAfter, gret>>
  /\ UNCHANGED <<cfgVars, cmpVars, clsVars, boxVars, txtVars>>

\* CAMLreturn (res)
GReturn ==
  /\ gpc = "return"
  /\ gret' = <<loc["res"]>>
  /\ roots' = {}
  /\ gpc' = "done"
  /\ UNCHANGED <<gfn, inD, heapMem, space, used, callerF, loc, cloc, gcs,
                 readAfter>>
  /\ UNCHANGED <<cfgVars, cmpVars, clsVars, boxVars, txtVars>>

GcNext ==
  \/ GEntry
  \/ GPrim
  \/ GBox1
  \/ GBox2
  \/ GTuple
  \/ GFill
  \/ GReturn

SpecGC == GcInit /\ [][GcNext]_vars

\* the value v is a pointer to a boxed double holding x
BoxOf(v, x) == v.k = "ptr" /\ heapMem[v.a] = DoubleCell(x)

(* C10: in caml_frexp_float and caml_modf_float every heap value used after
   a later allocation is registered as a root before that allocation, and
   the double is read from f before the first allocation; so whatever the
   allocations move or collect, the returned 2-element tuple holds the
   right components in order (frexp: boxed mantissa, integer exponent;
   modf: the boxed value modf returned, the boxed value it stored). *)
C10_TupleSurvivesCollection ==
  /\ readAfter <= 0
  /\ gpc \in {"box1", "box2", "tuple"} =>
       \A n \in LocalNames : loc[n].k = "ptr" => n \in roots
  /\ gpc = "done" =>
       LET r == gret[1]
           t == heapMem[r.a]
       IN  /\ r.k = "ptr" /\ t.tag = "Tuple"
           /\ gfn = "frexp" =>
                /\ BoxOf(t.f[1], Frexp(inD).m)
                /\ t.f[2] = Imm(Val_int(Frexp(inD).e))
           /\ gfn = "modf" =>
                /\ BoxOf(t.f[1], Modf(inD).frac)
                /\ BoxOf(t.f[2], Modf(inD).int)

\* modf returned after every one of its three allocations collected
C10_Witness ==
  /\ gpc = "done" /\ gfn = "modf" /\ gcs = 3
  /\ inD = 5
  /\ BoxOf(heapMem[gret[1].a].f[1], Norm(1, 4))
  /\ BoxOf(heapMem[gret[1].a].f[2], Norm(1, 1))

====
